---------------------------- MODULE Spec2Model ----------------------------
(***************************************************************************)
(* Model of cagedfinder/guitar.py: the fretboard (String, Note), the form  *)
(* synthesis Form.calculate_form, Form construction and Form.__add__.      *)
(*                                                                         *)
(* A pitch-class name is a string ("C#", "Db"); mingus' note_to_int and    *)
(* int_to_note are modelled by their tables, so that enharmonic matching   *)
(* goes through name -> int as in the code.  A scale is the interval table *)
(* of the mingus scale class; scale(key).ascending() is the name sequence  *)
(* it yields (spelled by int_to_note: only the pitch class of a scale note *)
(* is ever read, through is_enharmonic).                                   *)
(*                                                                         *)
(* A Python exception is the outcome "raised" with the exception's name;   *)
(* the variables then hold the raising frame's locals.                     *)
(***************************************************************************)
EXTENDS Integers, Sequences, FiniteSets, TLC

VARIABLES
    key,          \* calculate_form argument: pitch-class name
    scale,        \* calculate_form argument: scale class (by __name__)
    form,         \* calculate_form argument: CAGED letter
    form_start0,  \* form_start of the outermost call
    form_start,   \* form_start of the current (recursive) call
    transpose,    \* calculate_form argument
    pc,           \* position in the code
    i,            \* string.index of the loop at line 224
    roots,        \* local roots
    notes_list,   \* local notes_list
    start,        \* local start (index-finger fret); -1 while unassigned
    removed,      \* local removed (line 231)
    outcome,      \* "none" | "Form" | exception name
    result,       \* the Form returned by the outermost call
    acc,          \* accumulator of reduce(operator.add, ...)
    sum,          \* value of acc + result
    joined,       \* number of Forms folded into acc
    na, nb,       \* two Notes under comparison
    cmp           \* results of the comparisons of na and nb

vars == <<key, scale, form, form_start0, form_start, transpose, pc, i, roots,
          notes_list, start, removed, outcome, result, acc, sum, joined,
          na, nb, cmp>>

-----------------------------------------------------------------------------
(* Bounds of the model *)

\* Number of Forms folded by one reduce(operator.add, ...)
MaxJoin == 2

-----------------------------------------------------------------------------
(* mingus.core.notes *)

FRETS == 23

None == "None"

\* notes.int_to_note: index + 1 into the sharp-spelled table
int_to_note(n) ==
    <<"C", "C#", "D", "D#", "E", "F", "F#", "G", "G#", "A", "A#", "B">>[n + 1]

\* notes.note_to_int: letter value plus one per '#', minus one per 'b', mod 12
note_to_int(name) ==
    CASE name = "C"  -> 0
      [] name = "C#" -> 1   [] name = "Db" -> 1
      [] name = "D"  -> 2
      [] name = "D#" -> 3   [] name = "Eb" -> 3
      [] name = "E"  -> 4
      [] name = "F"  -> 5
      [] name = "F#" -> 6   [] name = "Gb" -> 6
      [] name = "G"  -> 7
      [] name = "G#" -> 8   [] name = "Ab" -> 8
      [] name = "A"  -> 9
      [] name = "A#" -> 10  [] name = "Bb" -> 10
      [] name = "B"  -> 11

\* notes.is_enharmonic
is_enharmonic(n1, n2) == note_to_int(n1) = note_to_int(n2)

\* mingus.core.scales: semitone offsets of the ascending scale, tonic repeated
Intervals(s) ==
    CASE s = "Ionian"          -> <<0, 2, 4, 5, 7, 9, 11, 0>>
      [] s = "Dorian"          -> <<0, 2, 3, 5, 7, 9, 10, 0>>
      [] s = "Phrygian"        -> <<0, 1, 3, 5, 7, 8, 10, 0>>
      [] s = "Lydian"          -> <<0, 2, 4, 6, 7, 9, 11, 0>>
      [] s = "Mixolydian"      -> <<0, 2, 4, 5, 7, 9, 10, 0>>
      [] s = "Aeolian"         -> <<0, 2, 3, 5, 7, 8, 10, 0>>
      [] s = "Locrian"         -> <<0, 1, 3, 5, 6, 8, 10, 0>>
      [] s = "MajorPentatonic" -> <<0, 2, 4, 7, 9, 0>>
      [] s = "MinorPentatonic" -> <<0, 3, 5, 7, 10, 0>>

Scales == {"Ionian", "Dorian", "Phrygian", "Lydian", "Mixolydian", "Aeolian",
           "Locrian", "MajorPentatonic", "MinorPentatonic"}

Keys == {"C", "C#", "D", "Eb", "E", "F", "F#", "G", "Ab", "A", "Bb", "B"}

Letters == {"C", "A", "G", "E", "D"}

\* scale(key).ascending()
ascending(k, s) ==
    [j \in DOMAIN Intervals(s) |->
        int_to_note((note_to_int(k) + Intervals(s)[j]) % 12)]

-----------------------------------------------------------------------------
(* Note and String *)

\* Note.__init__
Note(s, f, name, effect) ==
    [string |-> s, fret |-> f, name |-> name, effect |-> effect]

NoNote == Note(0, 0, None, None)

\* String.get_note_name
get_note_name(tuning, f) == int_to_note((note_to_int(tuning) + f) % 12)

\* strings = tuple(String(i, note) for i, note in enumerate('EBGDAE', start=1)):
\* strings[s] is String.notes of the string with index s, fret f at position f + 1
Tuning == <<"E", "B", "G", "D", "A", "E">>

strings ==
    [s \in 1..6 |->
        [p \in 1..FRETS |-> Note(s, p - 1, get_note_name(Tuning[s], p - 1), None)]]

\* String.get_notes: the notes enharmonic to some name of note_list, frets ascending
get_notes(s, note_list) ==
    LET match(n) == \E j \in DOMAIN note_list : is_enharmonic(n.name, note_list[j])
    IN  SelectSeq(strings[s], match)

\* get_notes of one name, tabulated by the name's pitch class (all get_notes reads)
NotesNamed ==
    [s \in 1..6 |-> [p \in 0..11 |-> get_notes(s, <<int_to_note(p)>>)]]

\* String.__getitem__ with a name
getitem(s, name) == NotesNamed[s][note_to_int(name)]

\* string.get_notes(scale_notes) with scale_notes = scale(key).ascending(), tabulated
ScaleNotesOn ==
    [s \in 1..6 |-> [k \in Keys |-> [sc \in Scales |-> get_notes(s, ascending(k, sc))]]]

\* str() of a non-negative integer below 100, as its decimal digits
Digits(n) == IF n < 10 THEN <<n>> ELSE <<n \div 10, n % 10>>

\* Note.__hash__: hash of str(string) + str(fret) + name
NoteHash(n) == Digits(n.string) \o Digits(n.fret) \o <<n.name>>

\* Note.__eq__
NoteEq(x, y) == NoteHash(x) = NoteHash(y)

\* Note.__lt__
NoteLt(x, y) ==
    x.string > y.string \/ (x.string = y.string /\ x.fret < y.fret)

\* Note.get_octave
get_octave(n) ==
    Note(n.string, IF n.fret >= 12 THEN n.fret - 12 ELSE n.fret + 12, n.name, None)

\* note in notes (tuple/list/set membership goes through __eq__)
Contains(seq, n) == \E j \in DOMAIN seq : NoteEq(seq[j], n)

-----------------------------------------------------------------------------
(* Form *)

\* Form.__init__ (Lick.__init__ stores tuple(notes_list))
Form(notes, k, s, f) == [notes |-> notes, key |-> k, scale |-> s, forms |-> f]

NoForm == Form(<<>>, None, None, "")

\* Form.__init__ with transpose: self.notes is the tuple built by Lick.__init__,
\* a tuple has no extend, so line 171 raises AttributeError whenever it runs
FormInitRaises(t) == t

-----------------------------------------------------------------------------
(* Form.calculate_form: helpers *)

\* root_forms: the anchor strings of a letter, by String.index
root_forms(f) ==
    CASE f = "C" -> <<2, 5>>
      [] f = "A" -> <<5, 3>>
      [] f = "G" -> <<3, 1, 6>>
      [] f = "E" -> <<1, 6, 4>>
      [] f = "D" -> <<4, 2>>

\* (note for note in seq if note.fret >= f)
from_fret(seq, f) ==
    LET ok(n) == n.fret >= f IN SelectSeq(seq, ok)

\* the notes next() can yield for the root on anchor j, given the floor fret
root_candidates(k, f, j, floor) == from_fret(getitem(root_forms(f)[j], k), floor)

\* a stretch of four frets allowed
too_far_four(fret, st) == fret - st > 4

\* line 245: the pinkie would have to go more than 3 frets from the index finger
too_far(fret, st) == fret - st > 3

\* line 242: min(strings[i - 2].get_notes((note.name,)), key=abs(start - fret));
\* min returns the first of the minimal elements
higher_string_note(s, note, st) ==
    LET c == getitem(s - 1, note.name)
        d(n) == IF st >= n.fret THEN st - n.fret ELSE n.fret - st
        best == CHOOSE j \in DOMAIN c :
                    /\ \A m \in DOMAIN c : d(c[j]) <= d(c[m])
                    /\ \A m \in 1..(j - 1) : d(c[m]) > d(c[j])
    IN  c[best]

\* lines 238-250: what the loop over one string appends, and the new start
walk_string(s, k, sc, st) ==
    LET above(n) == n.fret > st
        cands == SelectSeq(ScaleNotesOn[s][k][sc], above)
        far == {j \in DOMAIN cands : too_far(cands[j].fret, st)}
    IN  IF far = {}
        THEN [taken |-> cands, start |-> st]
        ELSE LET first == CHOOSE j \in far : \A m \in far : j <= m
                 h == higher_string_note(s, cands[first], st)
             IN  [taken |-> SubSeq(cands, 1, first - 1) \o <<h>>, start |-> h.fret]

\* walk_string tabulated over its arguments
WalkTable ==
    [s \in 2..6 |-> [k \in Keys |-> [sc \in Scales |->
        [st \in 0..(FRETS - 1) |-> walk_string(s, k, sc, st)]]]]

\* the low E keeps its notes below start
drop_below_skipped(nl, st) == nl

\* lines 228-229: while notes_list[0].fret < start: notes_list.pop(0)
\* (<<>> when the list runs empty: notes_list[0] then raises IndexError)
RECURSIVE drop_below(_, _)
drop_below(nl, st) ==
    IF nl = <<>> THEN <<>>
    ELSE IF nl[1].fret < st THEN drop_below(Tail(nl), st)
    ELSE nl

\* lines 232-233: the low E gets the note at removed.fret unless it starts there
insert_missing(nl, rem) ==
    IF nl[1].fret # rem.fret THEN <<strings[6][rem.fret + 1]>> \o nl ELSE nl

\* lines 235-236: copies the notes of string 6 onto string 1
mirror(nl) ==
    LET low(n) == n.string = 6
        lows == SelectSeq(nl, low)
    IN  nl \o [j \in DOMAIN lows |-> strings[1][lows[j].fret + 1]]

\* only the primary root is looked for
covers_primary(rts, nl) == Contains(nl, rts[1])

\* line 251: set(roots).issubset(set(notes_list))
covers(rts, nl) == \A j \in DOMAIN rts : Contains(nl, rts[j])

-----------------------------------------------------------------------------
(* Form.calculate_form: steps *)

Raise(exc) ==
    /\ pc' = "raised"
    /\ outcome' = exc

\* lines 207-223: the roots, the scale notes and the first note on string 6
Call ==
    /\ pc = "call"
    /\ LET anchors == root_forms(form)
           first == root_candidates(key, form, 1, form_start)
       IN  IF first = <<>>
           THEN \* line 216: next() raises StopIteration
                /\ Raise("StopIteration")
                /\ UNCHANGED <<roots, notes_list, start, i>>
           ELSE LET rest(j) == root_candidates(key, form, j, first[1].fret)
                    missing == {j \in 2..Len(anchors) : rest(j) = <<>>}
                    upto == IF missing = {} THEN Len(anchors)
                            ELSE (CHOOSE j \in missing : \A m \in missing : j <= m) - 1
                    rts == [j \in 1..upto |-> IF j = 1 THEN first[1] ELSE rest(j)[1]]
                    candidates == from_fret(ScaleNotesOn[6][key][scale], form_start)
                IN  /\ roots' = rts
                    /\ IF missing # {}
                       THEN \* line 217: StopIteration inside the generator expression
                            /\ Raise("RuntimeError")
                            /\ UNCHANGED <<notes_list, start, i>>
                       ELSE IF candidates = <<>>
                       THEN \* line 222
                            /\ Raise("StopIteration")
                            /\ UNCHANGED <<notes_list, start, i>>
                       ELSE /\ notes_list' = <<candidates[1]>>
                            /\ start' = candidates[1].fret
                            /\ i' = 6
                            /\ pc' = "walk"
                            /\ UNCHANGED outcome
    /\ UNCHANGED <<key, scale, form, form_start0, form_start, transpose, removed,
                   result, acc, sum, joined, na, nb, cmp>>

\* lines 238-250: one pass of the loop at line 224, for a string other than 1
WalkString ==
    /\ pc = "walk"
    /\ i > 1
    /\ LET w == WalkTable[i][key][scale][start]
       IN  /\ notes_list' = notes_list \o w.taken
           /\ start' = w.start
    /\ i' = i - 1
    /\ UNCHANGED <<key, scale, form, form_start0, form_start, transpose, pc, roots,
                   removed, outcome, result, acc, sum, joined, na, nb, cmp>>

\* lines 226-237: the pass for string 1
FinalString ==
    /\ pc = "walk"
    /\ i = 1
    /\ LET kept == drop_below(notes_list, start)
       IN  IF kept = <<>>
           THEN \* line 228: notes_list[0] on an empty list
                /\ notes_list' = kept
                /\ Raise("IndexError")
                /\ UNCHANGED removed
           ELSE LET rem == kept[Len(kept)]
                    popped == SubSeq(kept, 1, Len(kept) - 1)
                IN  /\ removed' = rem
                    /\ IF popped = <<>>
                       THEN \* line 232: notes_list[0] on an empty list
                            /\ notes_list' = popped
                            /\ Raise("IndexError")
                       ELSE /\ notes_list' = mirror(insert_missing(popped, rem))
                            /\ pc' = "check"
                            /\ UNCHANGED outcome
    /\ UNCHANGED <<key, scale, form, form_start0, form_start, transpose, i, roots,
                   start, result, acc, sum, joined, na, nb, cmp>>

\* lines 251-252: a root is missing, the call recurses one fret higher
Retry ==
    /\ pc = "check"
    /\ ~covers(roots, notes_list)
    /\ form_start' = form_start + 1
    /\ pc' = "call"
    /\ roots' = <<>>
    /\ notes_list' = <<>>
    /\ start' = -1
    /\ i' = 0
    /\ removed' = NoNote
    /\ UNCHANGED <<key, scale, form, form_start0, transpose, outcome, result,
                   acc, sum, joined, na, nb, cmp>>

\* lines 251, 253: all roots are in, the Form is built
Return ==
    /\ pc = "check"
    /\ covers(roots, notes_list)
    /\ IF FormInitRaises(transpose)
       THEN /\ Raise("AttributeError")
            /\ UNCHANGED result
       ELSE /\ result' = Form(notes_list, key, scale, form)
            /\ outcome' = "Form"
            /\ pc' = "done"
    /\ UNCHANGED <<key, scale, form, form_start0, form_start, transpose, i, roots,
                   notes_list, start, removed, acc, sum, joined, na, nb, cmp>>

\* the locals of a frame that has not run yet
FreshFrame ==
    /\ i = 0
    /\ roots = <<>>
    /\ notes_list = <<>>
    /\ start = -1
    /\ removed = NoNote
    /\ outcome = "none"
    /\ result = NoForm

Init ==
    /\ key \in Keys
    /\ scale \in Scales
    /\ form \in Letters
    /\ form_start0 \in 0..(FRETS - 1)
    /\ form_start = form_start0
    /\ transpose \in BOOLEAN
    /\ pc = "call"
    /\ FreshFrame
    /\ acc = NoForm
    /\ sum = NoForm
    /\ joined = 0
    /\ na = NoNote
    /\ nb = NoNote
    /\ cmp = <<>>

Next == Call \/ WalkString \/ FinalString \/ Retry \/ Return

Spec == Init /\ [][Next]_vars

-----------------------------------------------------------------------------
(* Form.__add__ and reduce(operator.add, ...) *)

\* set(notes): one element per __hash__/__eq__ class, the first met
set_of(seq) ==
    {seq[j] : j \in {m \in DOMAIN seq : \A l \in 1..(m - 1) : ~NoteEq(seq[l], seq[m])}}

\* set(self.notes) | set(other.notes)
set_union(x, y) ==
    set_of(x) \cup {n \in set_of(y) : \A m \in set_of(x) : ~NoteEq(m, n)}

\* sorted(): ascending by Note.__lt__
RECURSIVE sorted(_)
sorted(S) ==
    IF S = {} THEN <<>>
    ELSE LET least == CHOOSE x \in S : \A y \in S : ~NoteLt(y, x)
         IN  <<least>> \o sorted(S \ {least})

\* the two tuples concatenated, neither deduplicated nor sorted
add_notes_concat(x, y) == x \o y

\* line 174
add_notes(x, y) == sorted(set_union(x, y))

\* lines 175-180: key, scale and forms of self + other
add_label(x, y) ==
    IF x.key = y.key
    THEN [key   |-> x.key,
          scale |-> IF x.scale = y.scale THEN x.scale ELSE None,
          forms |-> IF x.scale # None THEN x.forms \o y.forms ELSE ""]
    ELSE [key |-> None, scale |-> None, forms |-> ""]

\* Form.__add__
form_add(x, y) ==
    LET l == add_label(x, y)
    IN  Form(add_notes(x.notes, y.notes), l.key, l.scale, l.forms)

\* the inputs of the calls whose Forms are folded
JoinKeys == {"G", "A"}

JoinScales == {"MinorPentatonic", "Locrian"}

\* reduce(operator.add, forms): the first Form starts the accumulator, each
\* later one is added to it; sum is the value the step computes
Fold ==
    /\ pc = "done"
    /\ joined < MaxJoin
    /\ sum' = IF joined = 0 THEN result ELSE form_add(acc, result)
    /\ joined' = joined + 1
    /\ pc' = "added"
    /\ UNCHANGED <<key, scale, form, form_start0, form_start, transpose, i, roots,
                   notes_list, start, removed, outcome, result, acc, na, nb, cmp>>

\* reduce takes the sum as its accumulator and asks for the next Form
NextForm ==
    /\ pc = "added"
    /\ joined < MaxJoin
    /\ acc' = sum
    /\ key' \in JoinKeys
    /\ scale' \in JoinScales
    /\ form' \in Letters
    /\ form_start0' = 0
    /\ form_start' = 0
    /\ pc' = "call"
    /\ i' = 0
    /\ roots' = <<>>
    /\ notes_list' = <<>>
    /\ start' = -1
    /\ removed' = NoNote
    /\ outcome' = "none"
    /\ result' = NoForm
    /\ UNCHANGED <<transpose, sum, joined, na, nb, cmp>>

InitJoin ==
    /\ key \in JoinKeys
    /\ scale \in JoinScales
    /\ form \in Letters
    /\ form_start0 = 0
    /\ form_start = 0
    /\ transpose = FALSE
    /\ pc = "call"
    /\ FreshFrame
    /\ acc = NoForm
    /\ sum = NoForm
    /\ joined = 0
    /\ na = NoNote
    /\ nb = NoNote
    /\ cmp = <<>>

NextJoin == Call \/ WalkString \/ FinalString \/ Retry \/ Return \/ Fold \/ NextForm

SpecJoin == InitJoin /\ [][NextJoin]_vars

-----------------------------------------------------------------------------
(* Note comparison *)

\* the spellings of a pitch class
Spellings(p) ==
    {n \in {"C", "C#", "Db", "D", "D#", "Eb", "E", "F", "F#", "Gb", "G", "G#",
            "Ab", "A", "A#", "Bb", "B"} : note_to_int(n) = p}

Effects == {None, "bend"}

\* Note(string, fret, name, effect) for every position of the fretboard and
\* every spelling of the pitch class sounding there
AllNotes ==
    UNION {{Note(s, f, n, e) : n \in Spellings(note_to_int(get_note_name(Tuning[s], f))),
                               e \in Effects} : s \in 1..6, f \in 0..(FRETS - 1)}

\* a == b, a < b, b < a, b == a
Compare ==
    /\ pc = "notes"
    /\ cmp' = [eq |-> NoteEq(na, nb), lt |-> NoteLt(na, nb),
               gt |-> NoteLt(nb, na), qe |-> NoteEq(nb, na)]
    /\ pc' = "compared"
    /\ UNCHANGED <<key, scale, form, form_start0, form_start, transpose, i, roots,
                   notes_list, start, removed, outcome, result, acc, sum, joined,
                   na, nb>>

InitNote ==
    /\ na \in AllNotes
    /\ nb \in AllNotes
    /\ cmp = <<>>
    /\ pc = "notes"
    /\ key = "C"
    /\ scale = "Ionian"
    /\ form = "C"
    /\ form_start0 = 0
    /\ form_start = 0
    /\ transpose = FALSE
    /\ FreshFrame
    /\ acc = NoForm
    /\ sum = NoForm
    /\ joined = 0

NextNote == Compare

SpecNote == InitNote /\ [][NextNote]_vars

-----------------------------------------------------------------------------
(* Properties *)

\* the notes of a sequence on one string, and their frets
OnString(seq, s) == LET on(n) == n.string = s IN SelectSeq(seq, on)

FretsOn(seq, s) == {seq[j].fret : j \in {m \in DOMAIN seq : seq[m].string = s}}

\* the frets >= floor at which string s sounds the pitch class of name k
KeyFrets(s, k, floor) ==
    {f \in floor..(FRETS - 1) : is_enharmonic(get_note_name(Tuning[s], f), k)}

\* a note of seq sits on string s at fret f and bears the string's name there
HasPosition(seq, s, f) ==
    \E j \in DOMAIN seq :
        /\ seq[j].string = s
        /\ seq[j].fret = f
        /\ seq[j].name = get_note_name(Tuning[s], f)

Min(S) == CHOOSE x \in S : \A y \in S : x <= y

\* C1: a returned Form holds every root of the successful attempt: on the
\* primary anchor string the first note enharmonic to key at fret >= the
\* attempt's form_start (itself >= the caller's form_start), on every other
\* anchor string the first such note at fret >= the primary root's fret.
C1_RootsCovered ==
    pc = "done" =>
        LET anchors == root_forms(form)
            primary == KeyFrets(anchors[1], key, form_start)
        IN  /\ form_start >= form_start0
            /\ primary # {}
            /\ HasPosition(result.notes, anchors[1], Min(primary))
            /\ \A j \in 2..Len(anchors) :
                  LET other == KeyFrets(anchors[j], key, Min(primary))
                  IN  /\ other # {}
                      /\ HasPosition(result.notes, anchors[j], Min(other))

\* a Form of letter G (three anchors) returned after at least one retry
C1_Witness ==
    /\ pc = "done"
    /\ form = "G"
    /\ form_start0 > 0
    /\ form_start > form_start0

\* C2: every note of a returned Form is a fretboard position (string 1..6,
\* fret 0..22, the name the string bears there) whose pitch class belongs to
\* scale(key).
C2_NotesInScale ==
    pc = "done" =>
        \A j \in DOMAIN result.notes :
            LET n == result.notes[j]
            IN  /\ n.string \in 1..6
                /\ n.fret \in 0..(FRETS - 1)
                /\ n.name = get_note_name(Tuning[n.string], n.fret)
                /\ \E m \in DOMAIN ascending(key, scale) :
                       is_enharmonic(n.name, ascending(key, scale)[m])

\* the fixture of test_d_locrian: frets per string, string 6 first
DLocrian ==
    LET frets == <<(<<6, 8, 9>>), (<<6, 8, 9>>), (<<5, 6, 8>>), (<<5, 6, 8>>),
                   (<<6, 8>>), (<<6, 8, 9>>)>>
        on(s) == [j \in DOMAIN frets[s] |-> strings[s][frets[s][j] + 1]]
    IN  on(6) \o on(5) \o on(4) \o on(3) \o on(2) \o on(1)

DLocrianCall ==
    /\ key = "G"
    /\ scale = "Locrian"
    /\ form = "D"
    /\ form_start0 = 0
    /\ ~transpose

\* C3: calculate_form("G", Locrian, "D", 0) raises nothing and returns exactly
\* the notes of the fixture, in the fixture's order.
C3_DLocrian ==
    DLocrianCall =>
        /\ pc # "raised"
        /\ pc = "done" => result.notes = DLocrian

C3_Witness == DLocrianCall /\ pc = "done" /\ Len(result.notes) = 17

\* C4: a retry raises form_start by one per attempt, there are at most FRETS
\* attempts, and a call that finds no shape covering the roots ends in the
\* explicit error FormNotFound.
C4_FormNotFound ==
    /\ form_start >= form_start0
    /\ form_start - form_start0 + 1 <= FRETS + 1
    /\ (pc = "raised" /\ outcome # "AttributeError") => outcome = "FormNotFound"

\* C5: with transpose, a call whose shape covers the roots returns the shape's
\* notes plus the octave partner of each note not at fret 11, all within
\* frets 0..22.
C5_Transpose ==
    (transpose /\ pc \in {"done", "raised"}
       /\ outcome \notin {"StopIteration", "RuntimeError", "IndexError"}) =>
        /\ outcome = "Form"
        /\ \A j \in DOMAIN result.notes : result.notes[j].fret \in 0..(FRETS - 1)
        /\ {result.notes[j] : j \in DOMAIN result.notes}
             = {notes_list[j] : j \in DOMAIN notes_list}
               \cup {get_octave(notes_list[j]) :
                        j \in {m \in DOMAIN notes_list : notes_list[m].fret # 11}}

\* C6: the key, scale and forms of A + B: with equal keys the key is kept, the
\* scale is kept when both agree and cleared otherwise, the forms are
\* concatenated when the result keeps a scale and cleared otherwise; with
\* different keys all three are cleared.  (A is acc, B is result, A + B is sum.)
C6_UnionLabels ==
    (pc = "added" /\ joined >= 2) =>
        IF acc.key = result.key
        THEN /\ sum.key = acc.key
             /\ sum.scale = (IF acc.scale = result.scale THEN acc.scale ELSE None)
             /\ sum.forms = (IF sum.scale # None THEN acc.forms \o result.forms ELSE "")
        ELSE /\ sum.key = None
             /\ sum.scale = None
             /\ sum.forms = ""

PentatonicCA ==
    /\ pc = "added"
    /\ joined = 2
    /\ acc.key = "G" /\ acc.scale = "MinorPentatonic" /\ acc.forms = "C"
    /\ result.key = "G" /\ result.scale = "MinorPentatonic" /\ result.forms = "A"

\* C7: for key G and the minor pentatonic, form C + form A has exactly three
\* notes on each string, each note once.
C7_ThreePerString ==
    PentatonicCA =>
        /\ \A s \in 1..6 : Len(OnString(sum.notes, s)) = 3
        /\ \A j, m \in DOMAIN sum.notes :
               NoteEq(sum.notes[j], sum.notes[m]) => j = m

C7_Witness == PentatonicCA /\ Len(sum.notes) = 18

\* C8: == holds iff string, fret and name agree; a < b iff a is on the
\* higher-numbered string or on the same string at a lower fret; exactly one
\* of a < b, a == b, b < a holds.
C8_TotalOrder ==
    pc = "compared" =>
        /\ cmp.eq <=> (na.string = nb.string /\ na.fret = nb.fret /\ na.name = nb.name)
        /\ cmp.lt <=> (na.string > nb.string
                         \/ (na.string = nb.string /\ na.fret < nb.fret))
        /\ \/ cmp.lt /\ ~cmp.eq /\ ~cmp.gt
           \/ ~cmp.lt /\ cmp.eq /\ ~cmp.gt
           \/ ~cmp.lt /\ ~cmp.eq /\ cmp.gt

\* C9: the notes of a returned Form are strictly ascending in the Note order.
C9_Sorted ==
    pc = "done" =>
        \A j \in 1..(Len(result.notes) - 1) :
            NoteLt(result.notes[j], result.notes[j + 1])

\* C10: in a returned Form the notes of string 1 and of string 6 sit at the
\* same frets, in the same order, and no note of string 6 is below start.
C10_OuterStrings ==
    pc = "done" =>
        LET low == OnString(result.notes, 6)
            high == OnString(result.notes, 1)
        IN  /\ FretsOn(result.notes, 1) = FretsOn(result.notes, 6)
            /\ Len(low) = Len(high)
            /\ \A j \in DOMAIN low : low[j].fret = high[j].fret
            /\ \A j \in DOMAIN low : low[j].fret >= start

\* a returned Form whose walk on string 2 ended without a shift: the note
\* popped at line 231 is a note of string 2
C10_Witness ==
    /\ pc = "done"
    /\ removed.string = 2
    /\ FretsOn(result.notes, 6) # {}

=============================================================================
